---- MODULE Spec2Model ----
(***************************************************************************)
(* A model of the Recursive Language Model runtime: the orchestrator loop  *)
(* of rlm/core.py (RLM._completion, the two response extractors) and the   *)
(* execution sandbox of rlm/sandbox.py (Sandbox.execute, the restricted    *)
(* import, output capture and truncation).                                 *)
(*                                                                         *)
(* Text is modelled as a sequence of tokens.  A token is a piece of text   *)
(* the two regular expressions of core.py treat as a unit: a fence, the    *)
(* final-answer marker, a newline, a blank, a word, or one whole line of   *)
(* Python.                                                                 *)
(***************************************************************************)
EXTENDS Integers, Sequences, FiniteSets, TLC

VARIABLES
    max_iterations,   \* RLM.max_iterations
    max_depth,        \* RLM.max_depth
    self_root_prompt, \* RLM.root_prompt
    frames,           \* the call stack of _completion: frames[d] is the call at depth d
    sys_stdout,       \* sys.stdout / sys.stderr: 0 the process stream, d the buffer of frame d
    sys_modules,      \* sys.modules: the attributes scripts have set on the imported modules
    outcome,          \* what completion() gave its caller
    last,             \* the last step taken (what it was and what it did)
    text,             \* the response text handed to the extractors
    ext_code,         \* the result of _extract_code(text)
    ext_answer,       \* the result of _extract_final_answer(text)
    sb,               \* the Sandbox objects used on their own
    sb_runs,          \* the number of calls of execute on them so far
    sb_result         \* what the last of these calls did

vars == <<max_iterations, max_depth, self_root_prompt, frames, sys_stdout, sys_modules,
          outcome, last, text, ext_code, ext_answer, sb, sb_runs, sb_result>>

rlmVars == <<max_iterations, max_depth, self_root_prompt, frames, sys_stdout, sys_modules,
             outcome, last>>

extVars == <<text, ext_code, ext_answer>>

sbVars == <<sb, sb_runs, sb_result>>

\* ------------------------------------------------------------ bounds

\* The longest response text the extractors are run on, in tokens.
MaxLen == 6

\* The largest max_iterations an RLM is constructed with.
MaxIterations == 2

\* The largest max_depth an RLM is constructed with.
MaxDepth == 2

\* The largest max_iterations + max_depth an RLM is constructed with.
MaxWork == 4

\* Sandbox.max_output_chars, in tokens.
MaxOutputChars == 10

\* The most calls of execute made on a Sandbox used on its own.
MaxRuns == 3

\* ------------------------------------------------------------ tokens

\* [fence] stands for the three backticks of a Markdown fence.

FENCE == "[fence]"
FENCE_PY == "[fence]python"
FENCE_REPL == "[fence]repl"
FINAL == "Final Answer:"
NL == "\\n"
SP == " "

\* Optional[str]: the value None, told apart from every string.
None == <<"<None>">>

\* An extractor that has not been run.
NotRun == <<"<not run>">>

IsFence(t) == t \in {FENCE, FENCE_PY, FENCE_REPL}

\* \s of the regular expressions and of str.strip().
IsSpace(t) == t \in {NL, SP}

MinOf(S) == CHOOSE x \in S : \A y \in S : x <= y

MaxOf(S) == CHOOSE x \in S : \A y \in S : x >= y

\* str.strip()
RECURSIVE LStrip(_)
LStrip(s) == IF s # <<>> /\ IsSpace(Head(s)) THEN LStrip(Tail(s)) ELSE s

RECURSIVE RStrip(_)
RStrip(s) ==
    IF s # <<>> /\ IsSpace(s[Len(s)]) THEN RStrip(SubSeq(s, 1, Len(s) - 1)) ELSE s

Strip(s) == RStrip(LStrip(s))

\* The positions after from that hold a fence: where the lazy .*? before the closing fence can end.
ClosersAfter(s, from) == {b \in (from + 1)..Len(s) : IsFence(s[b])}

\* What a closing token leaves behind when the match ends after its backticks.
TagLeft(t) ==
    IF t = FENCE_PY THEN <<"python">> ELSE IF t = FENCE_REPL THEN <<"repl">> ELSE <<>>

\* ------------------------------------------------------------ extractors

\* re.search(r"[fence](?:python|repl)\s*(.*?)[fence]", text, re.DOTALL), group(1).strip()
_extract_code(s) ==
    LET opens == {a \in 1..Len(s) :
                      s[a] \in {FENCE_PY, FENCE_REPL} /\ ClosersAfter(s, a) # {}}
    IN  IF opens = {} THEN None
        ELSE LET a == MinOf(opens)
                 b == MinOf(ClosersAfter(s, a))
             IN  Strip(SubSeq(s, a + 1, b - 1))

\* re.sub(r"[fence](?:python|repl)?\s*.*?[fence]", "", text, flags=re.DOTALL): left to
\* right, a fence and the nearest fence after it are removed with all between.
RECURSIVE StripFencesFrom(_, _)
StripFencesFrom(s, i) ==
    IF i > Len(s) THEN <<>>
    ELSE IF IsFence(s[i]) /\ ClosersAfter(s, i) # {}
         THEN LET b == MinOf(ClosersAfter(s, i))
              IN  TagLeft(s[b]) \o StripFencesFrom(s, b + 1)
         ELSE <<s[i]>> \o StripFencesFrom(s, i + 1)

StripFences(s) == StripFencesFrom(s, 1)

\* (?m)^\s* before position k: only blanks between k and the start of its line.
AtLineStart(t, k) ==
    LET nonblank == {j \in 1..(k - 1) : t[j] # SP}
    IN  nonblank = {} \/ t[MaxOf(nonblank)] = NL

\* The end of the line that position w is on (.+ stops before a newline).
LineEnd(t, w) ==
    LET nls == {e \in w..Len(t) : t[e] = NL}
    IN  IF nls = {} THEN Len(t) ELSE MinOf(nls) - 1

\* \s*(.+)$ after the marker at position k: None when nothing can match.
Remainder(t, k) ==
    LET nonspace == {w \in (k + 1)..Len(t) : ~IsSpace(t[w])}
        blanks == {w \in (k + 1)..Len(t) : t[w] = SP}
    IN  IF nonspace # {}
        THEN LET w == MinOf(nonspace) IN Strip(SubSeq(t, w, LineEnd(t, w)))
        ELSE IF blanks # {} THEN <<>> ELSE None

\* re.search(r"(?im)^\s*Final Answer:\s*(.+)$", text_without_code), group(1).strip()
SearchFinal(t) ==
    LET hits == {k \in 1..Len(t) :
                     t[k] = FINAL /\ AtLineStart(t, k) /\ Remainder(t, k) # None}
    IN  IF hits = {} THEN None ELSE Remainder(t, MinOf(hits))

_extract_final_answer(s) == SearchFinal(StripFences(s))

\* ------------------------------------------------------------ scripts

\* Lines of Python a response can hold; each is one token of the text.
BIND_X == "X = 1"
PRINT_X == "print(X)"
PRINT_CONTEXT == "print(context)"
PRINT_FINAL == "print('Final Answer: 5')"
HOOK == "print(rlm_query('child task'))"
IMPORT_OS == "import os.path"
IMPORT_COLL == "import collections.abc"
USE_COLL == "print(collections.abc.__name__)"
PRINT_BIG == "print('x' * (max_output_chars + 1))"
RAISE_BASE == "raise Exception.__bases__[0]('stop')"
SET_MARK == "collections.marker = 1"
PRINT_MARK == "print(collections.marker)"

Statements ==
    {BIND_X, PRINT_X, PRINT_CONTEXT, PRINT_FINAL, HOOK, IMPORT_OS, IMPORT_COLL,
     USE_COLL, PRINT_BIG, RAISE_BASE, SET_MARK, PRINT_MARK}

\* The prompt the hook statement passes to rlm_query.
ChildTask == <<"child task">>

\* The dotted name an import statement asks for.
ModuleName(stmt) ==
    IF stmt = IMPORT_OS THEN <<"os", "path">> ELSE <<"collections", "abc">>

\* The modules builtins.__import__ can find.
StdlibModules == {<<"os">>, <<"os", "path">>, <<"collections">>, <<"collections", "abc">>, <<"math">>}

\* The lines of a script: the text between its newlines, blanks dropped.
RECURSIVE Lines(_)
Lines(code) ==
    IF code = <<>> THEN <<>>
    ELSE LET nls == {k \in 1..Len(code) : code[k] = NL}
             cut == IF nls = {} THEN Len(code) + 1 ELSE MinOf(nls)
             line == SelectSeq(SubSeq(code, 1, cut - 1), LAMBDA t : t # SP)
         IN  (IF line = <<>> THEN <<>> ELSE <<line>>)
                 \o Lines(SubSeq(code, cut + 1, Len(code)))

\* exec() compiles the whole script before it runs any of it.
Compiles(code) ==
    \A k \in 1..Len(Lines(code)) :
        Len(Lines(code)[k]) = 1 /\ Lines(code)[k][1] \in Statements

Program(code) == [k \in 1..Len(Lines(code)) |-> Lines(code)[k][1]]

\* ------------------------------------------------------------ errors

Error(type, base, msg) == [type |-> type, base |-> base, msg |-> msg]

NoError == Error("", "", "")
ImportBlocked == Error("ImportError", "Exception", "Import is blocked in Sandbox")
ModuleNotFound == Error("ModuleNotFoundError", "Exception", "No module named")
NameError == Error("NameError", "Exception", "name is not defined")
AttributeError == Error("AttributeError", "Exception", "module has no attribute")
SyntaxError == Error("SyntaxError", "Exception", "invalid syntax")
CompletionError == Error("APIConnectionError", "Exception", "completion failed")
BaseStop == Error("BaseException", "BaseException", "stop")

\* traceback.print_exc(file=captured)
Trace(exc) == <<"Traceback (most recent call last):", exc.type, exc.msg, NL>>

\* ------------------------------------------------------------ Sandbox

_ALLOWED_IMPORT_ROOTS ==
    {"collections", "decimal", "fractions", "functools", "itertools", "math",
     "random", "re", "statistics"}

_SAFE_BUILTINS ==
    {"abs", "all", "any", "bool", "dict", "enumerate", "Exception", "filter",
     "float", "int", "isinstance", "len", "list", "map", "max", "min", "pow",
     "print", "range", "repr", "reversed", "round", "set", "sorted", "str",
     "sum", "tuple", "type", "ValueError", "zip"}

\* root = name.split(".")[0]
ImportRoot(name) == Head(name)

\* A faulty variant of _safe_import: builtins.__import__ with no check of the root.
UnrestrictedImport(name) ==
    IF name \in StdlibModules THEN NoError ELSE ModuleNotFound

\* Sandbox._safe_import: the error it raises, or NoError when the import is done.

_safe_import(name) ==
    IF ImportRoot(name) \notin _ALLOWED_IMPORT_ROOTS THEN ImportBlocked
    ELSE IF name \in StdlibModules THEN NoError ELSE ModuleNotFound

_build_builtins == _SAFE_BUILTINS \cup {"__import__"}

\* Sandbox.__init__: the namespace is a new dict with the builtins, updated
\* with extra_globals.
Sandbox(extra_globals) ==
    [namespace |-> [n \in {"__builtins__"} \cup DOMAIN extra_globals |->
                        IF n \in DOMAIN extra_globals THEN extra_globals[n]
                        ELSE _build_builtins],
     max_output_chars |-> MaxOutputChars]

TruncationSuffix == <<NL, "...[output truncated]">>

\* A faulty variant of _truncate_output: one character too many is kept.
TruncateOneLate(max_output_chars, output) ==
    IF Len(output) <= max_output_chars + 1 THEN output
    ELSE SubSeq(output, 1, max_output_chars + 1) \o TruncationSuffix

\* Sandbox._truncate_output
_truncate_output(max_output_chars, output) ==
    IF Len(output) <= max_output_chars THEN output
    ELSE SubSeq(output, 1, max_output_chars) \o TruncationSuffix

\* A name a script reads: a global of the namespace, else a builtin.
Resolves(ns, name) == name \in DOMAIN ns \/ name \in ns["__builtins__"]

Bind(ns, name, value) ==
    [n \in DOMAIN ns \cup {name} |-> IF n = name THEN value ELSE ns[n]]

\* print(...) writes to sys.stdout, which is this execution's buffer while
\* own holds.
WriteStdout(captured, own, what) == IF own THEN captured \o what \o <<NL>> ELSE captured

Run(mods, status, ns, captured, rest, error) ==
    [mods |-> mods, status |-> status, ns |-> ns, captured |-> captured,
     rest |-> rest, error |-> error]

\* exec(code, self.namespace), statement by statement, up to the end of the
\* script, the first error, or the first call of the recursion hook.  mods is
\* sys.modules: an imported module is the one object of the process, whatever
\* Sandbox imports it.
RECURSIVE Exec(_, _, _, _, _)
Exec(mods, ns, captured, stmts, own) ==
    IF stmts = <<>> THEN Run(mods, "done", ns, captured, <<>>, NoError)
    ELSE LET stmt == Head(stmts)
             rest == Tail(stmts)
         IN  CASE stmt = BIND_X -> Exec(mods, Bind(ns, "X", <<"1">>), captured, rest, own)
               [] stmt = PRINT_X ->
                    IF ~Resolves(ns, "print") \/ ~Resolves(ns, "X")
                    THEN Run(mods, "error", ns, captured, <<>>, NameError)
                    ELSE Exec(mods, ns, WriteStdout(captured, own, ns["X"]), rest, own)
               [] stmt = PRINT_CONTEXT ->
                    IF ~Resolves(ns, "print") \/ ~Resolves(ns, "context")
                    THEN Run(mods, "error", ns, captured, <<>>, NameError)
                    ELSE Exec(mods, ns, WriteStdout(captured, own, ns["context"]), rest, own)
               [] stmt = PRINT_FINAL ->
                    IF ~Resolves(ns, "print")
                    THEN Run(mods, "error", ns, captured, <<>>, NameError)
                    ELSE Exec(mods, ns, WriteStdout(captured, own, <<FINAL, SP, "5">>), rest, own)
               [] stmt = PRINT_BIG ->
                    IF ~Resolves(ns, "print")
                    THEN Run(mods, "error", ns, captured, <<>>, NameError)
                    ELSE Exec(mods, ns, WriteStdout(captured, own, [k \in 1..(MaxOutputChars + 1) |-> "x"]),
                              rest, own)
               [] stmt \in {IMPORT_OS, IMPORT_COLL} ->
                    IF ~Resolves(ns, "__import__")
                    THEN Run(mods, "error", ns, captured, <<>>, ImportBlocked)
                    ELSE IF _safe_import(ModuleName(stmt)) # NoError
                    THEN Run(mods, "error", ns, captured, <<>>, _safe_import(ModuleName(stmt)))
                    ELSE Exec(mods, Bind(ns, Head(ModuleName(stmt)), <<"module", Head(ModuleName(stmt))>>),
                              captured, rest, own)
               [] stmt = USE_COLL ->
                    IF ~Resolves(ns, "print") \/ ~Resolves(ns, "collections")
                    THEN Run(mods, "error", ns, captured, <<>>, NameError)
                    ELSE Exec(mods, ns, WriteStdout(captured, own, <<"collections.abc">>), rest, own)
               [] stmt = HOOK ->
                    IF ~Resolves(ns, "print") \/ ~Resolves(ns, "rlm_query")
                    THEN Run(mods, "error", ns, captured, <<>>, NameError)
                    ELSE Run(mods, "hook", ns, captured, rest, NoError)
               [] stmt = RAISE_BASE -> Run(mods, "error", ns, captured, <<>>, BaseStop)
               [] stmt = SET_MARK ->
                    IF ~Resolves(ns, "collections")
                    THEN Run(mods, "error", ns, captured, <<>>, NameError)
                    ELSE Exec(mods \cup {<<"collections", "marker">>}, ns, captured, rest, own)
               [] stmt = PRINT_MARK ->
                    IF ~Resolves(ns, "print") \/ ~Resolves(ns, "collections")
                    THEN Run(mods, "error", ns, captured, <<>>, NameError)
                    ELSE IF <<"collections", "marker">> \notin mods
                    THEN Run(mods, "error", ns, captured, <<>>, AttributeError)
                    ELSE Exec(mods, ns, WriteStdout(captured, own, <<"1">>), rest, own)

\* ------------------------------------------------------------ RLM

SystemPrompt == <<"You are a Recursive Language Model (RLM). ...">>

GenericInstruction ==
    <<"Solve the task using Python execution. ... end with ", FINAL, ".">>

Nudge == <<"I did not see any code or a 'Final Answer:'. ...">>

DepthSentinel(md) == <<"Max recursion depth (", ToString(md), ") reached.">>

IterationSentinel == <<"Max iterations reached without a Final Answer.">>

Message(role, content) == [role |-> role, content |-> content]

\* A faulty variant of _direct_prompt: the root instruction is used at every
\* depth.
InstructionAtEveryDepth(depth, root_prompt) ==
    IF root_prompt # None THEN root_prompt
    ELSE IF self_root_prompt # None THEN self_root_prompt
    ELSE GenericInstruction

\* RLM._direct_prompt
_direct_prompt(depth, root_prompt) ==
    IF depth = 1 /\ root_prompt # None THEN root_prompt
    ELSE IF depth = 1 /\ self_root_prompt # None THEN self_root_prompt
    ELSE GenericInstruction

\* A faulty variant of FreshHistory: the prompt itself is the user message.
PayloadInHistory(prompt, depth, root_prompt) ==
    <<Message("system", SystemPrompt), Message("user", prompt)>>

\* The fresh history of a call (core.py, lines 81 to 84).

FreshHistory(prompt, depth, root_prompt) ==
    <<Message("system", SystemPrompt),
      Message("user", _direct_prompt(depth, root_prompt))>>

\* One call of _completion(prompt, depth, root_prompt): its arguments, its
\* locals (history, sandbox, the loop index i), where it stands (pc), and,
\* while sandbox.execute(code) runs, the locals of execute (captured,
\* old_stdout) and the statements of the script still to run (rest).  calls
\* and execs count the model calls and the executions it has made.
NewFrame(prompt, root_prompt) ==
    [prompt |-> prompt, root_prompt |-> root_prompt, pc |-> "entry",
     history |-> <<>>, sandbox |-> <<>>, i |-> 0, calls |-> 0, execs |-> 0,
     rest |-> <<>>, captured |-> <<>>, old_stdout |-> 0]

\* What a step did, beside the state it left: whether the call that took it
\* ended (returned or raised), with what, and as what frame; and the
\* sandbox.execute that ended in it, if one did: in which frame, with which
\* error of the script, and whether it returned its output or raised.
NoNote ==
    [ended |-> "", value |-> None, frame |-> NewFrame(None, None),
     exec_depth |-> 0, exec_error |-> NoError, exec_output |-> None,
     exec_raised |-> FALSE, exec_captured |-> None]

\* The machine: the call stack, sys.stdout, the result given to the caller of
\* completion(), and the note of the step.
Machine(fs, so, sm, oc) ==
    [frames |-> fs, stdout |-> so, modules |-> sm, outcome |-> oc, note |-> NoNote]

Top(m) == m.frames[Len(m.frames)]

SetTop(m, f) == [m EXCEPT !.frames[Len(m.frames)] = f]

\* A faulty variant of Pop: history is one list of the RLM object, so what the
\* ended call has appended stays in the history its caller goes on with.
PopSharedHistory(m) ==
    LET d == Len(m.frames)
        fs == SubSeq(m.frames, 1, d - 1)
    IN  [m EXCEPT !.frames =
            IF d = 1 THEN fs
            ELSE [fs EXCEPT ![d - 1].history = @ \o m.frames[d].history]]

\* The top call is over: its frame, with its local history and sandbox, is gone.
Pop(m) == [m EXCEPT !.frames = SubSeq(m.frames, 1, Len(m.frames) - 1)]

Namespace(f) == f.sandbox[1].namespace

\* A faulty variant of SetNamespace: exec runs on a copy of the namespace,
\* and what the script bound is lost when it ends.
NamespaceNotKept(f, ns) == f

\* exec(code, self.namespace) binds in self.namespace itself: the namespace of
\* the Sandbox of f is ns after the script.
SetNamespace(f, ns) == [f EXCEPT !.sandbox = <<[f.sandbox[1] EXCEPT !.namespace = ns]>>]

\* A faulty variant of Catches: no except clause.
CatchesNothing(exc) == FALSE

\* The except clause of Sandbox.execute: except Exception.

Catches(exc) == exc.base = "Exception"

\* A faulty variant of RestoredStdout: sys.stdout is left as it is.
StdoutLeftAsIs(m) == m.stdout

\* The finally clause of Sandbox.execute: sys.stdout = old_stdout.
RestoredStdout(m) == Top(m).old_stdout

\* A faulty variant of ExecuteOutput: on an error the trace alone is returned,
\* without what the script had written before.
TraceOnly(f, run) ==
    IF run.status = "done"
    THEN IF run.captured = <<>> THEN <<"[No output]">>
         ELSE _truncate_output(f.sandbox[1].max_output_chars, run.captured)
    ELSE _truncate_output(f.sandbox[1].max_output_chars, Trace(run.error))

\* The value Sandbox.execute returns (sandbox.py, lines 116 to 122).
ExecuteOutput(f, run) ==
    IF run.status = "done"
    THEN IF run.captured = <<>> THEN <<"[No output]">>
         ELSE _truncate_output(f.sandbox[1].max_output_chars, run.captured)
    ELSE _truncate_output(f.sandbox[1].max_output_chars, run.captured \o Trace(run.error))

\* captured.getvalue() when Sandbox.execute ends: what the script wrote, and
\* after it the trace when the except clause was entered.
CapturedValue(run) ==
    IF run.status = "error" /\ Catches(run.error)
    THEN run.captured \o Trace(run.error)
    ELSE run.captured

\* A faulty variant of Observe: the observation is written over the last
\* message of the history.
ObserveInPlace(m, run) ==
    LET f == Top(m)
        output == ExecuteOutput(f, run)
    IN  [SetTop(m, [SetNamespace(f, run.ns) EXCEPT
                        !.captured = <<>>,
                        !.rest = <<>>,
                        !.history[Len(f.history)] =
                            Message("user", <<"Observation:", NL>> \o output),
                        !.i = @ + 1,
                        !.execs = @ + 1,
                        !.pc = "loop"])
         EXCEPT !.stdout = RestoredStdout(m),
                !.modules = run.mods,
                !.note.exec_depth = Len(m.frames),
                !.note.exec_error = run.error,
                !.note.exec_output = output,
                !.note.exec_captured = CapturedValue(run)]

\* Sandbox.execute returns in the top frame, and line 152 of core.py after
\* it: the observation is appended and the loop goes on.
Observe(m, run) ==
    LET f == Top(m)
        output == ExecuteOutput(f, run)
    IN  [SetTop(m, [SetNamespace(f, run.ns) EXCEPT
                        !.captured = <<>>,
                        !.rest = <<>>,
                        !.history = Append(@, Message("user", <<"Observation:", NL>> \o output)),
                        !.i = @ + 1,
                        !.execs = @ + 1,
                        !.pc = "loop"])
         EXCEPT !.stdout = RestoredStdout(m),
                !.modules = run.mods,
                !.note.exec_depth = Len(m.frames),
                !.note.exec_error = run.error,
                !.note.exec_output = output,
                !.note.exec_captured = CapturedValue(run)]

\* An exception leaves _completion in the top frame: the frame is gone; at the
\* root the caller of completion() gets it, below the root it is raised by the
\* rlm_query(...) call in the script of the frame above, inside that frame's
\* sandbox.execute, which catches it or lets it through.
RECURSIVE Propagate(_, _)
Propagate(m, exc) ==
    LET up == Pop(m)
    IN  IF up.frames = <<>>
        THEN [up EXCEPT !.outcome = [kind |-> "raised", value |-> <<exc.type>>]]
        ELSE LET f == Top(up)
             IN  IF Catches(exc)
                 THEN Observe(up, Run(up.modules, "error", Namespace(f), f.captured, <<>>, exc))
                 ELSE Propagate([up EXCEPT !.stdout = RestoredStdout(up)], exc)

Raise(m, exc) ==
    [Propagate(m, exc) EXCEPT !.note.ended = "raised",
                              !.note.value = <<exc.type>>,
                              !.note.frame = Top(m)]

\* What follows a run of exec in the top frame: the hook was called (a new
\* _completion frame at depth + 1), or execute ends: it returns its output,
\* or lets an error it does not catch through, out of _completion.
Continue(m, run) ==
    LET f == Top(m)
    IN  IF run.status = "hook"
        THEN [SetTop(m, [SetNamespace(f, run.ns) EXCEPT
                            !.captured = run.captured,
                            !.rest = run.rest,
                            !.pc = "in_hook"])
              EXCEPT !.frames = Append(@, NewFrame(ChildTask, None)),
                     !.modules = run.mods]
        ELSE IF run.status = "error" /\ ~Catches(run.error)
        THEN [Raise([SetTop(m, [SetNamespace(f, run.ns) EXCEPT !.captured = run.captured])
                     EXCEPT !.stdout = RestoredStdout(m), !.modules = run.mods], run.error)
              EXCEPT !.note.exec_depth = Len(m.frames),
                     !.note.exec_error = run.error,
                     !.note.exec_raised = TRUE,
                     !.note.exec_captured = CapturedValue(run)]
        ELSE Observe(m, run)

\* sandbox.execute(code) in the top frame, from its first line.
Execute(m, code) ==
    LET f == Top(m)
        d == Len(m.frames)
        entered == [SetTop(m, [f EXCEPT !.old_stdout = m.stdout, !.captured = <<>>])
                    EXCEPT !.stdout = d]
    IN  IF ~Compiles(code)
        THEN Continue(entered, Run(m.modules, "error", Namespace(f), <<>>, <<>>, SyntaxError))
        ELSE Continue(entered, Exec(m.modules, Namespace(f), <<>>, Program(code), TRUE))

\* _completion returns value in the top frame: the frame is gone; at the root
\* the caller of completion() gets the value, below the root rlm_query(...)
\* returns it in the script of the frame above, which prints it and runs on.
Return(m, value) ==
    LET up == Pop(m)
        f == Top(up)
        own == up.stdout = Len(up.frames)
        after ==
            IF up.frames = <<>>
            THEN [up EXCEPT !.outcome = [kind |-> "returned", value |-> value]]
            ELSE Continue(up, Exec(up.modules, Namespace(f), WriteStdout(f.captured, own, value),
                                   f.rest, own))
    IN  [after EXCEPT !.note.ended = "returned",
                      !.note.value = value,
                      !.note.frame = Top(m)]

\* The closure child_query of the call at depth (core.py, lines 94 and 95).
ChildQuery(depth) == <<"child_query", ToString(depth + 1)>>

\* The extra_globals of line 100: the hook and the context of the call.
ExtraGlobals(prompt, depth) ==
    [n \in {"rlm_query", "context"} |->
        IF n = "rlm_query" THEN ChildQuery(depth) ELSE prompt]

\* A faulty variant of FreshSandbox: the namespace of the caller is used again,
\* with the hook and context of the call put over it.
SandboxOfCaller(fs) ==
    LET d == Len(fs)
    IN  IF d = 1 THEN Sandbox(ExtraGlobals(fs[d].prompt, d))
        ELSE [fs[d - 1].sandbox[1] EXCEPT !.namespace =
                 [n \in DOMAIN @ \cup {"rlm_query", "context"} |->
                     IF n \in {"rlm_query", "context"}
                     THEN ExtraGlobals(fs[d].prompt, d)[n] ELSE @[n]]]

\* The fresh sandbox of a call (core.py, line 100): the hook is the closure
\* child_query of this call, context is its prompt.  fs is the call stack,
\* whose last frame is the call.
FreshSandbox(fs) == Sandbox(ExtraGlobals(fs[Len(fs)].prompt, Len(fs)))

\* response.choices[0].message.content or ""
Content(resp) == IF resp = None THEN <<>> ELSE resp

\* A faulty variant of Iterate: a code block that was found is executed, empty
\* or not.
ExecuteEmptyBlock(m, content) ==
    LET f == Top(m)
        f1 == [f EXCEPT !.history = Append(@, Message("assistant", content)),
                        !.calls = @ + 1]
        answer == _extract_final_answer(content)
        code == _extract_code(content)
    IN  IF answer # None THEN Return(SetTop(m, f1), answer)
        ELSE IF code # None THEN Execute(SetTop(m, f1), code)
        ELSE SetTop(m, [f1 EXCEPT !.history = Append(@, Message("user", Nudge)),
                                  !.i = @ + 1])

\* A faulty variant of Iterate: the code block is looked for, and executed,
\* before the final answer.
ExecuteFirst(m, content) ==
    LET f == Top(m)
        f1 == [f EXCEPT !.history = Append(@, Message("assistant", content)),
                        !.calls = @ + 1]
        answer == _extract_final_answer(content)
        code == _extract_code(content)
    IN  IF code # None /\ code # <<>> THEN Execute(SetTop(m, f1), code)
        ELSE IF answer # None THEN Return(SetTop(m, f1), answer)
        ELSE SetTop(m, [f1 EXCEPT !.history = Append(@, Message("user", Nudge)),
                                  !.i = @ + 1])

\* One iteration after the model call (core.py, lines 115 to 164), in the top
\* frame.
Iterate(m, content) ==
    LET f == Top(m)
        f1 == [f EXCEPT !.history = Append(@, Message("assistant", content)),
                        !.calls = @ + 1]
        answer == _extract_final_answer(content)
        code == _extract_code(content)
    IN  IF answer # None THEN Return(SetTop(m, f1), answer)
        ELSE IF code # None /\ code # <<>> THEN Execute(SetTop(m, f1), code)
        ELSE SetTop(m, [f1 EXCEPT !.history = Append(@, Message("user", Nudge)),
                                  !.i = @ + 1])

\* The failure of litellm.completion in the top frame: nothing catches it in
\* _completion.
CompletionFails(m) ==
    Raise(SetTop(m, [Top(m) EXCEPT !.calls = @ + 1]), CompletionError)

\* A faulty variant of DepthExceeded: one level too many.
GuardOffByOne(depth) == depth > max_depth + 1

\* The guard of _completion (core.py, line 65).

DepthExceeded(depth) == depth > max_depth

\* A faulty variant of InRange: one iteration too many.
OneMoreIteration(i) == i <= max_iterations

\* The loop condition: for i in range(self.max_iterations).

InRange(i) == i < max_iterations

\* ------------------------------------------------------------ responses

RootTask == <<"root task">>

RootInstruction == <<"Solve using context.">>

ConstructorInstruction == <<"Use Python execution to complete the task.">>

FinalOnly == <<FINAL, SP, "5">>

CodeAndFinal == <<FENCE_PY, NL, BIND_X, NL, FENCE, NL, FINAL, SP, "5">>

Delegate == <<FENCE_PY, NL, BIND_X, NL, HOOK, NL, PRINT_X, NL, FENCE>>

Inspect ==
    <<FENCE_REPL, NL, PRINT_CONTEXT, NL, PRINT_FINAL, NL, PRINT_X, NL, PRINT_BIG, NL,
      IMPORT_OS, NL, FENCE>>

Imports == <<FENCE_PY, NL, IMPORT_COLL, NL, USE_COLL, NL, IMPORT_OS, NL, FENCE>>

Stop == <<FENCE_PY, NL, RAISE_BASE, NL, FENCE>>

\* A code block with nothing in it, and one with blanks only.
EmptyBlock == <<FENCE_PY, NL, FENCE>>

BlankBlock == <<"I will look.", NL, FENCE_REPL, SP, NL, FENCE>>

\* Two code blocks.
TwoBlocks ==
    <<FENCE_PY, NL, BIND_X, NL, FENCE, NL, FENCE_REPL, NL, PRINT_BIG, NL, FENCE>>

\* An empty code block and a code block after it.
EmptyThenCode == <<FENCE_PY, NL, FENCE, NL, FENCE_PY, NL, BIND_X, NL, FENCE>>

\* A block without a tag.
Untagged == <<FENCE, NL, BIND_X, NL, FENCE>>

\* What the model may answer: None is a response without content.
Responses == {None, FinalOnly, CodeAndFinal, Delegate, Inspect, Imports, Stop}

\* What the model may reply when the loop is looked at alone.
LoopResponses ==
    Responses \cup {EmptyBlock, BlankBlock, TwoBlocks, EmptyThenCode, Untagged}

\* ------------------------------------------------------------ state machine

M == Machine(frames, sys_stdout, sys_modules, outcome)

\* The step op of the call at depth, which leaves the machine as machine.
Step(op, depth, content, machine) ==
    \E m \in {machine} :
        /\ frames' = m.frames
        /\ sys_stdout' = m.stdout
        /\ sys_modules' = m.modules
        /\ outcome' = m.outcome
        /\ last' = [op |-> op, depth |-> depth, content |-> content,
                    ended |-> m.note.ended, value |-> m.note.value,
                    frame |-> IF m.note.ended # "" THEN m.note.frame ELSE m.frames[depth],
                    exec_depth |-> m.note.exec_depth, exec_error |-> m.note.exec_error,
                    exec_output |-> m.note.exec_output, exec_raised |-> m.note.exec_raised,
                    exec_captured |-> m.note.exec_captured]
        /\ UNCHANGED <<max_iterations, max_depth, self_root_prompt, extVars, sbVars>>

NoStep ==
    [op |-> "init", depth |-> 0, content |-> None, ended |-> "", value |-> None,
     frame |-> NewFrame(None, None), exec_depth |-> 0, exec_error |-> NoError,
     exec_output |-> None, exec_raised |-> FALSE, exec_captured |-> None]

\* No Sandbox is used on its own.
NoSandbox == <<>>

\* What a call of execute on a Sandbox used on its own did: on which Sandbox,
\* the code, the Sandbox and sys.modules before it, and the note of the
\* execution.
NoResult ==
    [which |-> "", code |-> None, before |-> NoSandbox, modules |-> {}, note |-> NoNote]

Init ==
    /\ max_iterations \in 0..MaxIterations
    /\ max_depth \in 0..MaxDepth
    /\ max_iterations + max_depth <= MaxWork
    /\ self_root_prompt \in {None, ConstructorInstruction}
    /\ frames = <<>>
    /\ sys_stdout = 0
    /\ sys_modules = {}
    /\ outcome = [kind |-> "none", value |-> None]
    /\ last = NoStep
    /\ text = <<>>
    /\ ext_code = NotRun
    /\ ext_answer = NotRun
    /\ sb = NoSandbox
    /\ sb_runs = 0
    /\ sb_result = NoResult

\* RLM.completion(prompt, root_prompt): _completion at depth 1.
Completion(root_prompt) ==
    /\ frames = <<>>
    /\ outcome.kind = "none"
    /\ Step("call", 1, None, [M EXCEPT !.frames = <<NewFrame(RootTask, root_prompt)>>])

\* _completion, lines 64 to 100: the depth guard, else the fresh history and
\* the fresh sandbox.
Enter ==
    /\ frames # <<>>
    /\ Top(M).pc = "entry"
    /\ LET d == Len(frames)
           f == Top(M)
           built == [f EXCEPT !.history = FreshHistory(f.prompt, d, f.root_prompt),
                              !.sandbox = <<FreshSandbox(frames)>>,
                              !.pc = "loop"]
       IN  IF DepthExceeded(d)
           THEN Step("depth_limit", d, None, Return(M, DepthSentinel(max_depth)))
           ELSE Step("enter", d, None, SetTop(M, built))

\* One iteration of the loop: litellm.completion returns resp.
ModelReply(resp) ==
    /\ frames # <<>>
    /\ Top(M).pc = "loop"
    /\ InRange(Top(M).i)
    /\ Step("reply", Len(frames), Content(resp), Iterate(M, Content(resp)))

\* One iteration of the loop: litellm.completion raises.
ModelFail ==
    /\ frames # <<>>
    /\ Top(M).pc = "loop"
    /\ InRange(Top(M).i)
    /\ Step("fail", Len(frames), None, CompletionFails(M))

\* The loop is over: line 166.
Exhausted ==
    /\ frames # <<>>
    /\ Top(M).pc = "loop"
    /\ ~InRange(Top(M).i)
    /\ Step("exhausted", Len(frames), None, Return(M, IterationSentinel))

Next ==
    \/ \E root_prompt \in {None, RootInstruction} : Completion(root_prompt)
    \/ Enter
    \/ \E resp \in Responses : ModelReply(resp)
    \/ ModelFail
    \/ Exhausted

Spec == Init /\ [][Next]_vars

\* The program is one thread that runs on: a step that can be taken is taken.
FairSpec == Spec /\ WF_vars(Next)

\* ------------------------------------------------------------ the loop alone
\* RLM(max_depth=1): the loop of the one invocation there is, a hook call of
\* whose scripts returns the depth sentinel at once; the model replies with
\* any of LoopResponses.

LoopInit == Init /\ max_depth = 1

LoopNext ==
    \/ \E root_prompt \in {None, RootInstruction} : Completion(root_prompt)
    \/ Enter
    \/ \E resp \in LoopResponses : ModelReply(resp)
    \/ ModelFail
    \/ Exhausted

LoopSpec == LoopInit /\ [][LoopNext]_vars

\* ------------------------------------------------------------ the extractors alone

TextAlphabet == {FENCE, FENCE_PY, FENCE_REPL, FINAL, NL, SP, "5"}

SeqsUpTo(S, n) == UNION {[1..k -> S] : k \in 0..n}

ExtInit ==
    /\ text \in SeqsUpTo(TextAlphabet, MaxLen)
    /\ ext_code = NotRun
    /\ ext_answer = NotRun
    /\ max_iterations = 0
    /\ max_depth = 0
    /\ self_root_prompt = None
    /\ frames = <<>>
    /\ sys_stdout = 0
    /\ sys_modules = {}
    /\ outcome = [kind |-> "none", value |-> None]
    /\ last = NoStep
    /\ sb = NoSandbox
    /\ sb_runs = 0
    /\ sb_result = NoResult

ExtractFinalAnswer ==
    /\ ext_answer = NotRun
    /\ ext_answer' = _extract_final_answer(text)
    /\ UNCHANGED <<text, ext_code, rlmVars, sbVars>>

ExtractCode ==
    /\ ext_code = NotRun
    /\ ext_code' = _extract_code(text)
    /\ UNCHANGED <<text, ext_answer, rlmVars, sbVars>>

ExtNext == ExtractFinalAnswer \/ ExtractCode

\* The two extractors of core.py run on a text, in either order.
ExtractSpec == ExtInit /\ [][ExtNext]_vars

\* ------------------------------------------------------------ the Sandbox alone

\* A line that does not compile.
BAD_LINE == "X = ("

RECURSIVE Join(_)
Join(stmts) ==
    IF Len(stmts) <= 1 THEN stmts ELSE <<Head(stmts), NL>> \o Join(Tail(stmts))

\* The scripts a Sandbox used on its own is given: the empty script, scripts
\* that end normally with and without output, scripts that fail after they
\* have bound a name or written output, a script that does not compile, and
\* scripts that set and read an attribute of an imported module.
Scripts ==
    {Join(stmts) : stmts \in
        {<<>>,
         <<BIND_X>>,
         <<PRINT_X>>,
         <<BIND_X, PRINT_BIG>>,
         <<BIND_X, PRINT_X, IMPORT_OS>>,
         <<PRINT_BIG, IMPORT_OS>>,
         <<BIND_X, BAD_LINE>>,
         <<BIND_X, RAISE_BASE>>,
         <<IMPORT_COLL, SET_MARK>>,
         <<IMPORT_COLL, PRINT_MARK>>}}

\* The two Sandbox objects of one process, as a parent and a child invocation
\* hold one each.
Instances == {"parent", "child"}

\* Sandbox(extra_globals={"context": ...}), as the tests construct it, twice.
SbInit ==
    /\ sb = [w \in Instances |-> Sandbox([n \in {"context"} |-> <<w, "task">>])]
    /\ sb_runs = 0
    /\ sb_result = NoResult
    /\ text = <<>>
    /\ ext_code = NotRun
    /\ ext_answer = NotRun
    /\ max_iterations = 0
    /\ max_depth = 0
    /\ self_root_prompt = None
    /\ frames = <<>>
    /\ sys_stdout = 0
    /\ sys_modules = {}
    /\ outcome = [kind |-> "none", value |-> None]
    /\ last = NoStep

\* sb[which].execute(code), called from outside any _completion: the caller
\* is a frame that holds nothing but the Sandbox.
SandboxExecute(which, code) ==
    /\ sb # NoSandbox
    /\ sb_runs < MaxRuns
    /\ LET caller == [NewFrame(None, None) EXCEPT !.sandbox = <<sb[which]>>, !.pc = "loop"]
           m == Execute(Machine(<<caller>>, sys_stdout, sys_modules, outcome), code)
           after == IF m.note.exec_raised THEN m.note.frame.sandbox[1]
                    ELSE Top(m).sandbox[1]
       IN  /\ sb' = [sb EXCEPT ![which] = after]
           /\ sys_stdout' = m.stdout
           /\ sys_modules' = m.modules
           /\ sb_result' = [which |-> which, code |-> code, before |-> sb[which],
                            modules |-> sys_modules, note |-> m.note]
    /\ sb_runs' = sb_runs + 1
    /\ UNCHANGED <<max_iterations, max_depth, self_root_prompt, frames, outcome, last,
                   extVars>>

SbNext == \E which \in Instances, code \in Scripts : SandboxExecute(which, code)

\* Two Sandboxes on their own, given one script after another.
SandboxSpec == SbInit /\ [][SbNext]_vars

\* ------------------------------------------------------------ claims: helpers

\* sub occurs in s as a run of consecutive tokens.
Contains(s, sub) ==
    \E k \in 0..(Len(s) - Len(sub)) : SubSeq(s, k + 1, k + Len(sub)) = sub

\* The text of a token holds the payload as a literal.
Quotes(tok, payload) == tok = HOOK /\ payload = ChildTask

\* A message text that holds the payload verbatim.
Verbatim(content, payload) ==
    Contains(content, payload) \/ \E k \in 1..Len(content) : Quotes(content[k], payload)

Built(f) == f.sandbox # <<>>

Depths == 1..Len(frames)

IsObservation(msg) == msg.role = "user" /\ Contains(msg.content, <<"Observation:", NL>>)

LastMessage(f) == f.history[Len(f.history)]

\* The assistant messages of a history.
Replies(history) == {k \in 1..Len(history) : history[k].role = "assistant"}

\* A position of s that lies between a fence and the next fence after it,
\* fences paired from the left; a fence that is never closed fences all that
\* follows it.
Fenced(s, k) ==
    ~IsFence(s[k]) /\ Cardinality({j \in 1..(k - 1) : IsFence(s[j])}) % 2 = 1

\* s has a final-answer line outside every fenced region: a line that starts,
\* after blanks at most, with the marker, and goes on with more text.
HasFinalAnswerLine(s) ==
    \E k \in 1..(Len(s) - 1) :
        /\ s[k] = FINAL
        /\ AtLineStart(s, k)
        /\ ~Fenced(s, k)
        /\ ~IsFence(s[k + 1])
        /\ s[k + 1] # NL

\* ------------------------------------------------------------ claims

\* C1: a call of _completion with depth > max_depth (the root call too, when
\* max_depth = 0) returns the depth-limit sentinel that names max_depth; from
\* its entry to its return it makes no model call, builds no history and
\* constructs no Sandbox.
DepthLimitShortCircuits ==
    /\ \A d \in Depths :
           d > max_depth =>
               /\ frames[d].pc = "entry"
               /\ frames[d].history = <<>>
               /\ frames[d].sandbox = <<>>
               /\ frames[d].calls = 0
    /\ last.depth > max_depth =>
           /\ last.op \in {"call", "depth_limit"}
           /\ last.op = "depth_limit" =>
                  /\ last.ended = "returned"
                  /\ last.value = DepthSentinel(max_depth)
                  /\ last.frame.calls = 0
                  /\ last.frame.history = <<>>
                  /\ last.frame.sandbox = <<>>
                  /\ frames = <<>> => outcome = [kind |-> "returned", value |-> last.value]
                  /\ frames # <<>> => Contains(LastMessage(Top(M)).content, last.value)

\* C1 witness: the hook call made at depth max_depth has returned the sentinel
\* to the script, whose observation shows it.
DepthLimitHit ==
    /\ last.op = "depth_limit"
    /\ last.depth = max_depth + 1
    /\ max_depth >= 1
    /\ frames # <<>>
    /\ IsObservation(LastMessage(Top(M)))
    /\ Contains(LastMessage(Top(M)).content, DepthSentinel(max_depth))

InsideCodeFence(s, k) ==
    \E a \in 1..(k - 1) :
        /\ s[a] \in {FENCE_PY, FENCE_REPL}
        /\ \A j \in (a + 1)..k : ~IsFence(s[j])
        /\ ClosersAfter(s, k) # {}

\* s holds the marker, and holds it inside fenced code regions only.
OnlyFencedFinal(s) ==
    /\ \E k \in 1..Len(s) : s[k] = FINAL
    /\ \A k \in 1..Len(s) : s[k] = FINAL => InsideCodeFence(s, k)

\* C3: for a response whose only occurrences of the marker lie inside a fenced
\* code region, final-answer extraction returns not-found and code-block
\* extraction returns a fenced interior.
FencedFinalAnswerIsIgnored ==
    (ext_answer # NotRun /\ ext_code # NotRun /\ OnlyFencedFinal(text)) =>
        /\ ext_answer = None
        /\ ext_code # None

\* The names Sandbox.__init__ puts in the namespace of a call of _completion.
SeededNames == {"__builtins__", "rlm_query", "context"}

\* The names a statement binds when it runs.
BoundBy(stmt) ==
    IF stmt = BIND_X THEN {"X"}
    ELSE IF stmt \in {IMPORT_OS, IMPORT_COLL} THEN {Head(ModuleName(stmt))}
    ELSE {}

\* The names the scripts of the replies of a call can bind.
OwnBindings(f) ==
    UNION {LET c == f.history[k].content
           IN  UNION {BoundBy(c[j]) : j \in 1..Len(c)} : k \in Replies(f.history)}

\* The namespace of the call at depth d holds the seeded names, as seeded for
\* this call, and beside them only names its own scripts bind.
NamespaceIsOwn(d) ==
    LET f == frames[d]
        ns == Namespace(f)
    IN  /\ SeededNames \subseteq DOMAIN ns
        /\ DOMAIN ns \subseteq SeededNames \cup OwnBindings(f)
        /\ ns["context"] = f.prompt
        /\ ns["rlm_query"] = ChildQuery(d)
        /\ ns["__builtins__"] = _SAFE_BUILTINS \cup {"__import__"}

\* C4: the namespace of an invocation never holds a name bound by another
\* invocation: a fresh Sandbox holds the safe builtins with the restricted
\* import, its own recursion hook and its own context (the prompt of its
\* call), an invocation gets a name only from its own scripts (a child script
\* that reads X without binding it gets a NameError), and a step of an
\* invocation changes no namespace of the invocations that wait below it.
NamespacesAreIsolated ==
    [][/\ \A d \in 1..Len(frames') : Built(frames'[d]) => NamespaceIsOwn(d)'
       /\ last'.op = "enter" => DOMAIN Namespace(frames'[Len(frames')]) = SeededNames
       /\ \A e \in 1..(Len(frames) - 1) :
              (e <= Len(frames') /\ (last'.ended = "" \/ e < Len(frames) - 1)) =>
                  frames'[e].sandbox = frames[e].sandbox
       /\ (last'.op = "reply" /\ last'.content = Inspect
               /\ "X" \notin OwnBindings(last'.frame)) =>
              /\ last'.exec_depth = last'.depth
              /\ last'.exec_error = NameError]_vars

\* C4 witness: the parent has bound X and called the hook; the child, built
\* with its own context, has run a script that reads X and got a NameError.
ChildLacksParentBinding ==
    /\ Len(frames) >= 2
    /\ "X" \in DOMAIN Namespace(frames[1])
    /\ Built(frames[2])
    /\ "X" \notin DOMAIN Namespace(frames[2])
    /\ Namespace(frames[2])["context"] = ChildTask
    /\ Namespace(frames[1])["context"] = RootTask
    /\ last.op = "reply"
    /\ last.depth = 2
    /\ last.content = Inspect
    /\ last.exec_error = NameError

\* C5, as stated, for the messages the orchestrator itself writes (the replies
\* of the model left aside): no message of the history of a non-root
\* invocation holds its task payload verbatim.
PayloadNeverInHistory ==
    \A d \in Depths :
        d >= 2 =>
            \A k \in 1..Len(frames[d].history) :
                frames[d].history[k].role # "assistant" =>
                    ~Verbatim(frames[d].history[k].content, frames[d].prompt)

\* The history of a non-root call f holds the payload only where the model or
\* a script put it: the two messages it starts with are the system prompt and
\* the generic instruction, and a later message that holds the payload is a
\* reply of the model, or the observation of a script that prints context.
PayloadOnlyByModelOrScript(f) ==
    /\ Len(f.history) >= 2
    /\ f.history[1] = Message("system", SystemPrompt)
    /\ f.history[2] = Message("user", GenericInstruction)
    /\ Namespace(f)["context"] = f.prompt
    /\ \A k \in 1..Len(f.history) :
           Verbatim(f.history[k].content, f.prompt) =>
               \/ f.history[k].role = "assistant"
               \/ /\ k > 2
                  /\ IsObservation(f.history[k])
                  /\ f.history[k - 1].role = "assistant"
                  /\ Contains(f.history[k - 1].content, <<PRINT_CONTEXT>>)

\* C5, amended: the messages _completion itself writes into the history of a
\* non-root invocation (system prompt, generic instruction, nudges) never hold
\* the task payload, which is bound to context; the payload is in the history
\* only in a reply of the model or in the observation of a script that printed
\* context.
PayloadEntersHistoryOnlyByModelOrScript ==
    /\ \A d \in Depths :
           (d >= 2 /\ Built(frames[d])) => PayloadOnlyByModelOrScript(frames[d])
    /\ (last.depth >= 2 /\ Built(last.frame)) => PayloadOnlyByModelOrScript(last.frame)

\* C5 witness: a child has run a script that prints context, and its payload
\* stands in the observation.
ChildPrintedItsContext ==
    /\ Len(frames) = 2
    /\ last.op = "reply"
    /\ last.depth = 2
    /\ last.content = Inspect
    /\ IsObservation(LastMessage(frames[2]))
    /\ Verbatim(LastMessage(frames[2]).content, frames[2].prompt)
    /\ ~Verbatim(frames[2].history[2].content, frames[2].prompt)

\* An output that _truncate_output has cut.
IsTruncated(output) ==
    /\ Len(output) = MaxOutputChars + Len(TruncationSuffix)
    /\ SubSeq(output, MaxOutputChars + 1, Len(output)) = TruncationSuffix

\* The call at depth e has just got the output of sandbox.execute as an
\* observation and is back in its loop.
Observed(e, output) ==
    /\ Len(frames) = e
    /\ frames[e].pc = "loop"
    /\ LastMessage(frames[e]) = Message("user", <<"Observation:", NL>> \o output)

CompletionFailureAbortsAncestors ==
    last.op = "fail" =>
        /\ frames = <<>>
        /\ outcome = [kind |-> "raised", value |-> <<CompletionError.type>>]

\* The calls that run a loop are nested at most max_depth deep: a call that
\* has built its history or made a model call has depth <= max_depth, the
\* stack holds at most one call more (at its entry), and that call returns
\* the depth-limit sentinel without a model call.
NestingIsBounded ==
    /\ Len(frames) <= max_depth + 1
    /\ \A d \in Depths : (Built(frames[d]) \/ frames[d].calls > 0) => d <= max_depth
    /\ last.op \in {"reply", "fail", "enter", "exhausted"} => last.depth <= max_depth
    /\ (last.op = "depth_limit" /\ last.depth > 1) =>
           /\ last.depth = max_depth + 1
           /\ last.frame.calls = 0
           /\ last.value = DepthSentinel(max_depth)
           /\ frames[max_depth].pc = "loop" =>
                  Contains(LastMessage(frames[max_depth]).content, DepthSentinel(max_depth))

\* completion() does not return a value only when a model call failed or a
\* script raised an error that Sandbox.execute does not catch.
RaisedOnlyByFailure ==
    outcome.kind = "raised" => (last.op = "fail" \/ last.exec_raised)

\* C8: with scripts that call the recursion hook, the nesting of invocations
\* that run a loop never exceeds max_depth: every invocation that makes a
\* model call has depth <= max_depth, the hook call made from depth max_depth
\* returns the depth-limit sentinel with zero model calls, and the root call
\* eventually ends: it returns, unless a model call failed or a script raised
\* an uncaught error.
RecursionIsBoundedAndEnds ==
    /\ []NestingIsBounded
    /\ []RaisedOnlyByFailure
    /\ <>(outcome.kind # "none")

\* C8 witness: every depth from 1 to max_depth >= 2 has made a model call and
\* called the hook, and the hook call made from depth max_depth has returned
\* the sentinel.
NestingReachedMaxDepth ==
    /\ max_depth >= 2
    /\ Len(frames) = max_depth
    /\ \A d \in Depths : frames[d].calls >= 1
    /\ last.op = "depth_limit"
    /\ last.frame.calls = 0
    /\ last.value = DepthSentinel(max_depth)

\* No reply in the history of f holds a final answer.
NoFinalAnswerIn(f) ==
    \A k \in Replies(f.history) : _extract_final_answer(f.history[k].content) = None

\* C9: an invocation with depth <= max_depth makes at most max_iterations
\* model calls; it returns the iteration sentinel exactly when it is through
\* max_iterations responses of which none held a final answer (after zero
\* model calls when max_iterations = 0); the sentinel is a returned string,
\* not an error.
IterationBudgetHolds ==
    /\ \A d \in Depths :
           /\ frames[d].calls <= max_iterations
           /\ Built(frames[d]) =>
                  /\ frames[d].calls = Cardinality(Replies(frames[d].history))
                  /\ frames[d].calls = frames[d].i + (IF frames[d].pc = "in_hook" THEN 1 ELSE 0)
                  /\ NoFinalAnswerIn(frames[d])
                  /\ frames[d].pc = "loop" =>
                         (~InRange(frames[d].i) <=> frames[d].calls = max_iterations)
    /\ last.frame.calls <= max_iterations
    /\ last.op = "exhausted" =>
           /\ last.ended = "returned"
           /\ last.value = IterationSentinel
           /\ last.frame.calls = max_iterations
           /\ Cardinality(Replies(last.frame.history)) = max_iterations
           /\ NoFinalAnswerIn(last.frame)
           /\ frames = <<>> => outcome = [kind |-> "returned", value |-> IterationSentinel]
    /\ (last.ended = "returned" /\ last.value = IterationSentinel) => last.op = "exhausted"

\* C9 witness: an invocation has made max_iterations >= 2 model calls, run a
\* script, found no final answer, and returned the sentinel.
BudgetExhausted ==
    /\ last.op = "exhausted"
    /\ max_iterations >= 2
    /\ last.frame.calls = max_iterations
    /\ last.frame.execs >= 1
    /\ last.value = IterationSentinel

\* The ImportError of _safe_import, as traceback.print_exc renders it.
BlockedIndication == Trace(ImportBlocked)

\* The names of the namespace of f that are bound to a module.
ModulesOf(f) ==
    {n \in DOMAIN Namespace(f) \ SeededNames : Head(Namespace(f)[n]) = "module"}

\* C10, as stated: an import of a module whose top-level name is not in the
\* permitted roots makes execute return (not raise) an observation that holds
\* the ImportError 'blocked' indication, and binds no module.
BlockedImportIsReported ==
    (last.exec_depth > 0 /\ last.exec_error = ImportBlocked) =>
        /\ ~last.exec_raised
        /\ Contains(last.exec_output, BlockedIndication)
        /\ "os" \notin ModulesOf(last.frame)

\* C10, amended: an import succeeds only if the part of the module name
\* before the first dot is a permitted root; otherwise execute does not raise,
\* binds no module, and returns the captured output followed by the
\* ImportError 'blocked' trace, cut to max_output_chars: the indication is in
\* the observation unless the output before it fills the budget.  An import
\* of a permitted root followed by a use of the module returns the computed
\* output.
BlockedImportIsContained ==
    /\ \A d \in Depths : Built(frames[d]) => ModulesOf(frames[d]) \subseteq _ALLOWED_IMPORT_ROOTS
    /\ Built(last.frame) => ModulesOf(last.frame) \subseteq _ALLOWED_IMPORT_ROOTS
    /\ (last.exec_depth > 0 /\ last.exec_error = ImportBlocked) =>
           /\ ~last.exec_raised
           /\ Observed(last.exec_depth, last.exec_output)
           /\ \/ Contains(last.exec_output, BlockedIndication)
              \/ IsTruncated(last.exec_output)
    /\ (last.op = "reply" /\ last.content = Imports) =>
           /\ last.exec_depth = last.depth
           /\ last.exec_output = <<"collections.abc", NL>> \o BlockedIndication
           /\ ModulesOf(last.frame) = {"collections"}

\* C10 witness: a script has imported collections.abc, used it, and then
\* tried to import os.path: the output of the use and the blocked indication
\* stand in the observation, and os is not bound.
AllowedImportUsedBlockedImportReported ==
    /\ last.op = "reply"
    /\ last.content = Imports
    /\ Observed(last.depth, last.exec_output)
    /\ Contains(last.exec_output, <<"collections.abc">>)
    /\ Contains(last.exec_output, <<"ImportError">>)
    /\ "collections" \in DOMAIN Namespace(last.frame)
    /\ "os" \notin DOMAIN Namespace(last.frame)

\* C11, as stated: captured output of more than max_output_chars characters is
\* returned as its first max_output_chars characters followed by the
\* truncation marker, and captured output of at most max_output_chars
\* characters is returned unchanged.
CapturedOutputReturnedOrCut ==
    (sb_runs > 0 /\ ~sb_result.note.exec_raised) =>
        LET c == sb_result.note.exec_captured
            o == sb_result.note.exec_output
            n == sb_result.before.max_output_chars
        IN  /\ Len(c) > n => o = SubSeq(c, 1, n) \o TruncationSuffix
            /\ Len(c) <= n => o = c

\* C11, amended: captured output (with the trace, on the error path) of more
\* than max_output_chars characters is returned as its first max_output_chars
\* characters followed by the truncation marker; if it is not empty and has
\* at most max_output_chars characters it is returned unchanged; an empty
\* buffer, which only a script that ends normally leaves, is returned as the
\* [No output] marker; the returned string never exceeds max_output_chars plus
\* the marker length.
TruncationIsExact ==
    (sb_runs > 0 /\ ~sb_result.note.exec_raised) =>
        LET c == sb_result.note.exec_captured
            o == sb_result.note.exec_output
            n == sb_result.before.max_output_chars
        IN  /\ Len(c) > n => o = SubSeq(c, 1, n) \o TruncationSuffix
            /\ (c # <<>> /\ Len(c) <= n) => o = c
            /\ c = <<>> => (o = <<"[No output]">> /\ sb_result.note.exec_error = NoError)
            /\ Len(o) <= n + Len(TruncationSuffix)
            /\ sb_result.note.exec_error # NoError =>
                   SubSeq(c, Len(c) - Len(Trace(NoError)) + 1, Len(c))
                       = Trace(sb_result.note.exec_error)

\* C11 witness: a script that ended normally had written more than
\* max_output_chars characters, and execute returned the first
\* max_output_chars of them and the marker.
LongOutputCut ==
    /\ sb_runs > 0
    /\ sb_result.note.exec_error = NoError
    /\ ~sb_result.note.exec_raised
    /\ Len(sb_result.note.exec_captured) > MaxOutputChars
    /\ Len(sb_result.note.exec_output) = MaxOutputChars + Len(TruncationSuffix)
    /\ SubSeq(sb_result.note.exec_output, 1, MaxOutputChars)
           = SubSeq(sb_result.note.exec_captured, 1, MaxOutputChars)

\* What the scripts of the Sandbox w observe: for every script, the string
\* execute would return for it now.
Observes(w) ==
    [code \in Scripts |->
        LET caller == [NewFrame(None, None) EXCEPT !.sandbox = <<sb[w]>>, !.pc = "loop"]
        IN  Execute(Machine(<<caller>>, sys_stdout, sys_modules, outcome), code).note.exec_output]

\* C12: nothing a script does in one invocation changes what a script of
\* another invocation observes: an execution in one Sandbox leaves what the
\* scripts of the other Sandbox observe as it was.
NoSharedMutableState ==
    [][\A w \in Instances : sb_result'.which # w => Observes(w)' = Observes(w)]_vars

OnlyResultReached(e, before, captured) ==
    LET given == IF last'.ended = "returned" THEN last'.value \o <<NL>>
                 ELSE Trace(last'.exec_error)
        mine == before \o given
    IN  /\ Len(captured) >= Len(mine)
        /\ SubSeq(captured, 1, Len(mine)) = mine
        /\ last'.ended = "raised" => (captured = mine /\ last'.exec_error.type = last'.value[1])

NamespacePersistsWithinInvocation ==
    [][/\ (frames # <<>> /\ Built(frames[Len(frames)]) /\ Len(frames') >= Len(frames)) =>
              LET d == Len(frames)
                  ns == Namespace(frames[d])
                  after == Namespace(frames'[d])
              IN  /\ DOMAIN ns \subseteq DOMAIN after
                  /\ \A n \in DOMAIN ns : after[n] = ns[n]
                  /\ (last'.op = "reply" /\ last'.content = Delegate) =>
                         ("X" \in DOMAIN after /\ after["X"] = <<"1">>)
                  /\ (last'.op = "reply" /\ last'.content = Inspect /\ "X" \in DOMAIN ns) =>
                         Contains(last'.exec_captured, <<FINAL, SP, "5", NL>> \o ns["X"] \o <<NL>>)
       /\ last'.op = "enter" =>
              /\ DOMAIN Namespace(frames'[Len(frames')]) = SeededNames
              /\ frames'[Len(frames')].sandbox = <<FreshSandbox(frames)>>]_vars

\* C14 witness: the script of the second iteration of an invocation has read
\* the name X that the script of its first iteration bound.
NameBoundEarlierResolves ==
    /\ last.op = "reply"
    /\ last.content = Inspect
    /\ last.frame.calls = 2
    /\ last.frame.history[3].content = Delegate
    /\ Contains(last.exec_captured, <<"1", NL>>)
    /\ last.exec_error # NameError

\* ------------------------------------------------------------ C15
\* C15 as the specification states it: a nudge is appended only when the
\* Extractor found no recognised code block in the response.
NudgeOnlyWithoutBlock ==
    [][(/\ last'.op = "reply"
        /\ Len(frames') >= Len(frames)
        /\ LastMessage(frames'[Len(frames)]) = Message("user", Nudge))
       => _extract_code(last'.content) = None]_vars

\* C15, amended: in an iteration whose response has no final answer, the
\* first recognised code block is executed when its content is not blank, and
\* then exactly one message, "Observation:" and the result of that execution,
\* is appended once the execution has ended, unless the execution raises out
\* of the invocation; when there is no recognised block, or the first one is
\* blank, the nudge is appended and nothing is executed.  No step appends more
\* than one user message or ends more than one execution of a frame.
OneUserMessagePerIteration ==
    [][/\ (last'.op = "reply" /\ _extract_final_answer(last'.content) = None) =>
              LET d == Len(frames)
                  f == frames[d]
                  c == last'.content
                  code == _extract_code(c)
                  said == Append(f.history, Message("assistant", c))
              IN  IF code = None \/ code = <<>>
                  THEN /\ Len(frames') = d
                       /\ frames'[d].history = Append(said, Message("user", Nudge))
                       /\ frames'[d].execs = f.execs
                       /\ frames'[d].sandbox = f.sandbox
                       /\ frames'[d].i = f.i + 1
                       /\ last'.exec_depth = 0
                       /\ sys_modules' = sys_modules
                  ELSE IF last'.exec_raised
                  THEN Len(frames') < d /\ last'.exec_depth = d
                  ELSE IF Len(frames') > d
                  THEN /\ frames'[d].history = said
                       /\ frames'[d].pc = "in_hook"
                       /\ frames'[d].execs = f.execs
                       /\ frames'[d].i = f.i
                  ELSE /\ Len(frames') = d
                       /\ last'.exec_depth = d
                       /\ frames'[d].history =
                              Append(said, Message("user", <<"Observation:", NL>> \o last'.exec_output))
                       /\ frames'[d].execs = f.execs + 1
                       /\ frames'[d].i = f.i + 1
                       /\ c = TwoBlocks =>
                              /\ last'.exec_captured = <<>>
                              /\ last'.exec_output = <<"[No output]">>
                              /\ Namespace(frames'[d])["X"] = <<"1">>
       /\ (last'.op # "reply" /\ last'.exec_depth # 0 /\ ~last'.exec_raised) =>
              LET e == last'.exec_depth
              IN  /\ frames[e].pc = "in_hook"
                  /\ frames'[e].history =
                         Append(frames[e].history,
                                Message("user", <<"Observation:", NL>> \o last'.exec_output))
                  /\ frames'[e].execs = frames[e].execs + 1
                  /\ frames'[e].i = frames[e].i + 1
       /\ \A k \in 1..Len(frames') :
              (k <= Len(frames) /\ Built(frames[k])) =>
                  /\ frames'[k].execs <= frames[k].execs + 1
                  /\ Len(frames'[k].history) <= Len(frames[k].history) + 2
                  /\ frames'[k].execs <= frames'[k].i]_vars

\* An empty block was found and the nudge was appended; and, of two blocks,
\* the first was executed.
EmptyBlockNudged ==
    /\ frames # <<>>
    /\ last.op = "reply"
    /\ last.content = EmptyThenCode
    /\ _extract_code(last.content) = <<>>
    /\ LastMessage(frames[Len(frames)]) = Message("user", Nudge)
    /\ \E k \in 1..(Len(frames[1].history) - 1) :
           /\ frames[1].history[k] = Message("assistant", TwoBlocks)
           /\ IsObservation(frames[1].history[k + 1])

\* ------------------------------------------------------------ C16
\* The instruction the invocation at depth d is to be seeded with, given the
\* root instruction of its call.
SeedInstruction(d, root_prompt) ==
    IF d >= 2 THEN GenericInstruction
    ELSE IF root_prompt # None THEN root_prompt
    ELSE IF self_root_prompt # None THEN self_root_prompt
    ELSE GenericInstruction

\* C16: the history an invocation sends at its first model call is exactly
\* the system prompt and one user instruction: at depth 1 the root instruction
\* of the call, else that of the constructor, else the generic instruction; at
\* depth 2 and deeper the generic instruction, whatever the root was given; and
\* neither message holds the payload.
FirstCallSendsSeed ==
    \A d \in 1..Len(frames) :
        LET f == frames[d]
        IN  Built(f) =>
                /\ Len(f.history) >= 2
                /\ f.calls = 0 => Len(f.history) = 2
                /\ f.history[1] = Message("system", SystemPrompt)
                /\ f.history[2] = Message("user", SeedInstruction(d, f.root_prompt))
                /\ d >= 2 => f.history[2].content = GenericInstruction
                /\ ~Verbatim(f.history[1].content, f.prompt)
                /\ ~Verbatim(f.history[2].content, f.prompt)

\* A root that was given a root instruction has a child about to make its
\* first model call, seeded with the generic instruction.
ChildSeededWithGenericInstruction ==
    /\ Len(frames) = 2
    /\ Built(frames[2])
    /\ frames[2].calls = 0
    /\ frames[1].history[2].content = RootInstruction
    /\ self_root_prompt = ConstructorInstruction
    /\ frames[2].history[2].content = GenericInstruction

\* ------------------------------------------------------------ C17
\* C17: the final answer is the trimmed remainder of a line that begins, after
\* blanks at most, with the marker, in the text without its fenced regions; it
\* holds no text of another line, and nothing is found when no line begins
\* with the marker.
AnswerIsRestOfMarkerLine ==
    ext_answer # NotRun =>
        LET t == StripFences(text)
            marks == {k \in 1..Len(t) : t[k] = FINAL /\ AtLineStart(t, k)}
        IN  /\ marks = {} => ext_answer = None
            /\ ext_answer # None =>
                   \E k \in marks : ext_answer = Strip(SubSeq(t, k + 1, LineEnd(t, k)))

\* ------------------------------------------------------------ C18
\* The role of the j-th message of a history.
RoleAt(j) == IF j = 1 THEN "system" ELSE IF j % 2 = 0 THEN "user" ELSE "assistant"

\* C18: the history of an invocation is append-only and alternating.  When it
\* is about to make a model call, having made k - 1, it holds 2k messages with
\* roles system, user, and then assistant and user in turn; while one of its
\* scripts runs, the reply is the last message; no step changes or removes a
\* message; and the step of a model call appends the reply as one assistant
\* message, which is there whether the step goes on to return, execute or nudge.
HistoryAlternatesAndGrows ==
    [][/\ \A k \in 1..Len(frames') :
              LET g == frames'[k]
              IN  Built(g) =>
                      /\ \A j \in 1..Len(g.history) : g.history[j].role = RoleAt(j)
                      /\ g.pc = "loop" => Len(g.history) = 2 * (g.calls + 1)
                      /\ g.pc = "in_hook" => Len(g.history) = 2 * g.calls + 1
                      /\ (k <= Len(frames) /\ Built(frames[k])) =>
                             /\ Len(g.history) >= Len(frames[k].history)
                             /\ SubSeq(g.history, 1, Len(frames[k].history)) = frames[k].history
       /\ last'.op = "reply" =>
              LET f == frames[Len(frames)]
                  n == Len(f.history)
              IN  /\ n = 2 * (f.calls + 1)
                  /\ Len(last'.frame.history) \in {n + 1, n + 2}
                  /\ SubSeq(last'.frame.history, 1, n) = f.history
                  /\ last'.frame.history[n + 1] = Message("assistant", last'.content)
                  /\ last'.frame.calls = f.calls + 1
                  /\ Len(last'.frame.history) = n + 2 =>
                         last'.frame.history[n + 2].role = "user"]_vars

\* An invocation with a child is about to make its second model call with
\* four messages, the third being its first reply.
SecondCallSendsFourMessages ==
    /\ Len(frames) = 2
    /\ frames[2].pc = "loop"
    /\ frames[2].calls = 1
    /\ InRange(frames[2].i)
    /\ Len(frames[2].history) = 4
    /\ frames[2].history[3].role = "assistant"
    /\ IsObservation(frames[2].history[4])
    /\ Len(frames[1].history) = 3

\* ------------------------------------------------------------ C19
\* C19: output capture is restored in LIFO order.  sys.stdout is always the
\* buffer of the innermost execute that is running (the process stream when
\* none is), and each waiting execute has saved the stream of the one around
\* it; an execute that ends, by returning its output or the trace of an error
\* it caught, leaves sys.stdout as it was when it was entered.  So what a
\* caller's execute has captured when its child has returned is what the
\* caller had printed before the hook call, the string the hook returned, and
\* what the rest of the script printed after it: nothing the child printed.
StdoutRestoredInLIFOOrder ==
    [][/\ sys_stdout' = (IF frames' = <<>> THEN 0 ELSE Len(frames') - 1)
       /\ \A k \in 1..(Len(frames') - 1) :
              /\ frames'[k].pc = "in_hook"
              /\ frames'[k].old_stdout = k - 1
       /\ (last'.exec_depth # 0 /\ ~last'.exec_raised) =>
              LET e == last'.exec_depth
              IN  /\ Len(frames') = e
                  /\ IF last'.op = "reply" /\ Len(frames) = e
                     THEN sys_stdout' = sys_stdout
                     ELSE /\ frames[e].pc = "in_hook"
                          /\ sys_stdout' = frames[e].old_stdout
                  /\ (last'.ended = "returned" /\ Len(frames) = e + 1) =>
                         LET f == frames[e]
                             after == Exec(sys_modules, Namespace(f), <<>>, f.rest, TRUE)
                         IN  /\ last'.exec_captured =
                                    f.captured \o last'.value \o <<NL>> \o CapturedValue(after)
                             /\ ~Contains(last'.exec_captured, ChildTask)]_vars

\* A child that printed its context has returned; the caller's observation
\* holds the returned string and what the caller printed after the hook call,
\* and sys.stdout is the process stream again.
ParentCapturedAfterChildPrinted ==
    /\ last.op = "reply"
    /\ last.depth = 2
    /\ last.ended = "returned"
    /\ \E k \in 1..Len(last.frame.history) :
           /\ IsObservation(last.frame.history[k])
           /\ Contains(last.frame.history[k].content, ChildTask)
    /\ Len(frames) = 1
    /\ last.exec_depth = 1
    /\ last.exec_captured = <<"5", NL, "1", NL>>
    /\ LastMessage(frames[1]) = Message("user", <<"Observation:", NL, "5", NL, "1", NL>>)
    /\ sys_stdout = 0

\* ------------------------------------------------------------ C20
\* C20: a script that fails part-way is not rolled back.  After every call of
\* execute the namespace holds all it held before; a script that binds X,
\* prints it and then fails on a blocked import leaves X bound, and execute
\* returns what was printed and the trace after it, cut to max_output_chars; a
\* script run later on the same Sandbox reads X; a script that does not
\* compile runs none of its lines; and [No output] is returned exactly when the
\* script ended normally and had written nothing.
PartialFailureIsKept ==
    sb_runs > 0 =>
        LET w == sb_result.which
            code == sb_result.code
            before == sb_result.before.namespace
            ns == sb[w].namespace
            e == sb_result.note.exec_error
            c == sb_result.note.exec_captured
            o == sb_result.note.exec_output
            raised == sb_result.note.exec_raised
            cut(x) == _truncate_output(sb_result.before.max_output_chars, x)
        IN  /\ DOMAIN before \subseteq DOMAIN ns
            /\ \A n \in DOMAIN before : ns[n] = before[n]
            /\ code = Join(<<BIND_X, PRINT_X, IMPORT_OS>>) =>
                   /\ e = ImportBlocked
                   /\ ~raised
                   /\ ns["X"] = <<"1">>
                   /\ c = <<"1", NL>> \o Trace(e)
                   /\ o = cut(c)
                   /\ Observes(w)[<<PRINT_X>>] = <<"1", NL>>
            /\ code = Join(<<PRINT_BIG, IMPORT_OS>>) =>
                   /\ e = ImportBlocked
                   /\ c = [k \in 1..(MaxOutputChars + 1) |-> "x"] \o <<NL>> \o Trace(e)
                   /\ o = cut(c)
            /\ (code = Join(<<IMPORT_COLL, PRINT_MARK>>) /\ e # NoError) =>
                   /\ e = AttributeError
                   /\ ns["collections"] = <<"module", "collections">>
                   /\ o = cut(Trace(e))
            /\ code = Join(<<BIND_X, RAISE_BASE>>) =>
                   /\ raised
                   /\ ns["X"] = <<"1">>
            /\ code = Join(<<BIND_X, BAD_LINE>>) =>
                   /\ e = SyntaxError
                   /\ ns = before
                   /\ o = cut(Trace(e))
            /\ code = <<PRINT_X>> =>
                   IF "X" \in DOMAIN before
                   THEN e = NoError /\ o = <<"1", NL>>
                   ELSE e = NameError /\ o = cut(Trace(e))
            /\ ~raised => (o = <<"[No output]">> <=> (e = NoError /\ c = <<>>))

\* A Sandbox without X has run the script that binds X, prints it and fails:
\* X is bound, the output holds the printed value before the trace, and a
\* later script on that Sandbox would print X.
NameKeptAfterFailure ==
    /\ sb_runs > 0
    /\ sb_result.code = Join(<<BIND_X, PRINT_X, IMPORT_OS>>)
    /\ "X" \notin DOMAIN sb_result.before.namespace
    /\ sb_result.note.exec_error = ImportBlocked
    /\ sb[sb_result.which].namespace["X"] = <<"1">>
    /\ sb_result.note.exec_output = <<"1", NL>> \o Trace(ImportBlocked)
    /\ Observes(sb_result.which)[<<PRINT_X>>] = <<"1", NL>>

====
